---- MODULE Spec2Model ----
(***************************************************************************)
(* Creator Studio AI: the YouTube automation agent.                        *)
(*                                                                         *)
(* runFullWorkflow (services/geminiService.ts) chains five generation      *)
(* calls and reports progress to a sink; runAutomation (App.tsx) owns the  *)
(* UI state of the agent (prompt, loading flag, error banner, step list)   *)
(* and passes onProgressCallback as the sink.                              *)
(*                                                                         *)
(* JavaScript runs the code between two awaits without interruption, so    *)
(* one action is one such segment: from the settlement of a generation     *)
(* call up to the issue of the next one (or the end of the run).           *)
(*                                                                         *)
(* selectBestOption (services/geminiService.ts) picks one of a list of     *)
(* options with the help of a chooser call.  handleVideoGenerationSubmit   *)
(* (components/ToolView.tsx) starts a video job and polls its status from  *)
(* an interval timer.  withRetry (services/apiService.ts) repeats an API    *)
(* call with a growing delay.  Each part has its own specification over    *)
(* the same variables: SpecWF, Spec, SpecSelect, SpecPoll and SpecRetry.   *)
(***************************************************************************)
EXTENDS Integers, Sequences, FiniteSets, Bags, TLC

\* ------------------------------------------------------------------ bounds
MaxRuns == 2        \* runs that runAutomation may start in one behaviour
MaxTitles == 2      \* length of the titles list of a title response
MaxSegEmit == 5     \* progress updates one uninterrupted segment can emit
MaxSubmits == 2     \* submissions of the video form in one behaviour
MaxChecks == 2      \* status checks the poll loop issues in one behaviour
MaxOptions == 2     \* options handed to selectBestOption
MaxTextLen == 2     \* characters of an option or of the chooser's answer
MaxRetries == 3     \* largest maxRetries handed to withRetry

\* ------------------------------------------------------------- value sets
Topics == {"a", "b"}
PromptValues == {"", " "} \cup Topics          \* "" empty, " " whitespace only
TitleTexts == {"T1", "T2"}
Undefined == "undefined"
Null == "null"

StepIds == <<"titles", "hooks", "script", "description", "tags">>
StepIdSet == {StepIds[k] : k \in 1..Len(StepIds)}
StepIndex(id) == CHOOSE k \in 1..Len(StepIds) : StepIds[k] = id

StepLabel(id) ==
    CASE id = "titles" -> "Generating Viral Titles"
      [] id = "hooks" -> "Creating Catchy Hooks"
      [] id = "script" -> "Writing Full Script"
      [] id = "description" -> "Drafting Video Description"
      [] id = "tags" -> "Optimizing SEO Tags"

\* StepContent values; `undefined` (no data) is NoData.
NoData == [kind |-> "undefined"]
NullContent == [kind |-> "null"]
TextContent(t) == [kind |-> "string", text |-> t]
ListContent(alts, chosen) == [kind |-> "selection", alternatives |-> alts, chosen |-> chosen]

ScriptDoneText == "Script generated successfully. View in the tool for full details."
DescriptionText == "D1"
EmptyTopicMessage == "Please enter a video topic to automate."
UnexpectedMessage == "An unexpected error occurred during automation."

\* ------------------------------------------- what a generation call returns
\* A resolved generateX call has passed that function's validation.
\* `alt` says whether the parsed JSON object carries an `alternatives` key
\* (the key runStep sniffs); arrays never do.
TitleLists == UNION {[1..n -> TitleTexts] : n \in 0..MaxTitles}

TitleValues ==
    {[kind |-> "object", of |-> "titles", alt |-> a, hasTitles |-> TRUE, titles |-> l, best |-> b] :
        a \in BOOLEAN, l \in TitleLists, b \in TitleTexts \cup {Undefined}}
    \cup
    {[kind |-> "object", of |-> "titles", alt |-> a, hasTitles |-> FALSE, titles |-> <<>>, best |-> b] :
        a \in BOOLEAN, b \in TitleTexts}

ArrayValue(of) == [kind |-> "array", of |-> of]
ScriptValues == {[kind |-> "object", of |-> "script", alt |-> a] : a \in BOOLEAN}
DescriptionValues ==
    {[kind |-> "object", of |-> "description", alt |-> a, description |-> DescriptionText] : a \in BOOLEAN}

Values(stepId) ==
    CASE stepId = "titles" -> TitleValues
      [] stepId = "hooks" -> {ArrayValue("hooks")}
      [] stepId = "script" -> ScriptValues
      [] stepId = "description" -> DescriptionValues
      [] stepId = "tags" -> {ArrayValue("tags")}

Rejected == [rejected |-> TRUE, value |-> NoData]
Resolved(v) == [rejected |-> FALSE, value |-> v]

\* ------------------------------------------------------------------- state
VARIABLES
    runs,            \* the invocations of runFullWorkflow, in call order
    agentPrompt,     \* App state: text of the prompt field
    isLoadingAgent,  \* App state: loading flag
    agentError,      \* App state: error banner (Null when none)
    workflowSteps,   \* App state: null or the list of WorkflowStep
    poller,          \* ToolView state of the video generator and its poll loop
    selection,       \* the call of selectBestOption
    retry            \* the call of withRetry

appVars == <<agentPrompt, isLoadingAgent, agentError, workflowSteps>>
vars == <<runs, agentPrompt, isLoadingAgent, agentError, workflowSteps, poller, selection, retry>>

\* ------------------------------------------------------ the progress sink
\* An update is recorded in the run's log when onProgress is called with it.
Update(stepId, status, data) == [stepId |-> stepId, status |-> status, data |-> data]

Emit(r, stepId, status, data) ==
    [r EXCEPT !.log = Append(@, Update(stepId, status, data))]

\* The sink of a run started by runAutomation is onProgressCallback, which
\* only queues a state update and cannot throw.  A sink handed to
\* runFullWorkflow by any other caller ("any") may throw on any call:
\* sk.thr holds the ordinals, within the current segment, of the calls that
\* throw, and sk.base is the length of the log when the segment began.
SinkThrew(r, sk) == r.sink = "any" /\ (Len(r.log) - sk.base) \in sk.thr

\* A thrown error travels up as pc = "throw" until a catch block handles it.
Throw(r) == [r EXCEPT !.pc = "throw"]

\* ---------------------------------------------------------------- runStep
\* Variant of runStepCatch that rethrows without reporting Failed.
runStepCatch_silent(r, stepId) == Throw(r)

\* catch block of runStep: report Failed, rethrow.
runStepCatch(r, stepId) == Throw(Emit(r, stepId, "failed", NoData))

\* Variant of runStepCall that issues the generation call before it reports
\* Running.
runStepCall_callFirst(r, stepId, input, sk) ==
    LET r0 == [r EXCEPT !.pc = stepId,
                        !.calls = Append(@, [step |-> stepId, input |-> input,
                                             at |-> Len(r.log), outcome |-> "pending"])]
        r1 == Emit(r0, stepId, "running", NoData)
    IN  IF SinkThrew(r1, sk) THEN runStepCatch(r1, stepId) ELSE r1

\* runStep up to `await fn()`: report Running, issue the generation call.
runStepCall(r, stepId, input, sk) ==
    LET r1 == Emit(r, stepId, "running", NoData) IN
    IF SinkThrew(r1, sk)
    THEN runStepCatch(r1, stepId)
    ELSE [r1 EXCEPT !.pc = stepId,
                    !.calls = Append(@, [step |-> stepId, input |-> input,
                                         at |-> Len(r1.log), outcome |-> "pending"])]

isSelectionObject(result) == result.kind = "object" /\ result.alt

\* runStep after `await fn()`: the call has settled with `outcome`.
runStepSettle(r, stepId, outcome, sk) ==
    IF outcome.rejected
    THEN runStepCatch(r, stepId)
    ELSE IF ~isSelectionObject(outcome.value)
         THEN LET r1 == Emit(r, stepId, "completed", outcome.value) IN
              IF SinkThrew(r1, sk) THEN runStepCatch(r1, stepId) ELSE r1
         ELSE r

\* -------------------------------------------------------- runFullWorkflow
afterTitles(r, titleResponse, sk) ==
    IF ~titleResponse.hasTitles
    THEN Throw(r)                    \* titleResponse.titles.map: TypeError
    ELSE LET titles == titleResponse.titles
             r1 == Emit(r, "titles", "selecting", ListContent(titles, Null))
         IN  IF SinkThrew(r1, sk) THEN Throw(r1)
             ELSE LET bestTitle == titleResponse.best
                      r2 == Emit([r1 EXCEPT !.bestTitle = bestTitle],
                                 "titles", "completed", ListContent(titles, bestTitle))
                  IN  IF SinkThrew(r2, sk) THEN Throw(r2)
                      ELSE runStepCall(r2, "hooks", bestTitle, sk)

\* Variant of afterHooks that feeds the raw topic forward.
afterHooks_topic(r, hooks, sk) == runStepCall(r, "script", r.topic, sk)

afterHooks(r, hooks, sk) == runStepCall(r, "script", r.bestTitle, sk)

\* Variant of afterScript that starts the description step before the
\* script step is reported Completed.
afterScript_early(r, scriptResponse, sk) ==
    LET r1 == runStepCall(r, "description", r.bestTitle, sk) IN
    IF r1.pc = "throw" THEN r1
    ELSE Emit(r1, "script", "completed", TextContent(ScriptDoneText))

afterScript(r, scriptResponse, sk) ==
    LET r1 == Emit(r, "script", "completed", TextContent(ScriptDoneText)) IN
    IF SinkThrew(r1, sk) THEN Throw(r1)
    ELSE runStepCall(r1, "description", r1.bestTitle, sk)

afterDescription(r, descriptionResponse, sk) ==
    LET r1 == Emit(r, "description", "completed", TextContent(descriptionResponse.description)) IN
    IF SinkThrew(r1, sk) THEN Throw(r1)
    ELSE runStepCall(r1, "tags", r1.bestTitle, sk)

afterTags(r, tags, sk) == [r EXCEPT !.pc = "return"]

\* Variant of runFullWorkflowCatch without the outer try/catch.
runFullWorkflowCatch_rethrow(r) ==
    IF r.pc = "throw" THEN [r EXCEPT !.pc = "done", !.promise = "rejected"]
    ELSE IF r.pc = "return" THEN [r EXCEPT !.pc = "done", !.promise = "resolved"]
    ELSE r

\* The outer try/catch of runFullWorkflow and the end of its body: a thrown
\* error is logged and swallowed, so the returned promise resolves.
runFullWorkflowCatch(r) ==
    IF r.pc \in {"throw", "return"}
    THEN [r EXCEPT !.pc = "done", !.promise = "resolved"]
    ELSE r

\* Bookkeeping, not program state: the awaited call (always the last one
\* issued) is marked with its outcome, and sinkThrew remembers whether any
\* call of the sink has thrown.  Every call of the sink made in a segment
\* whose ordinal is in sk.thr has thrown.
Settled(r, outcome) ==
    [r EXCEPT !.calls[Len(r.calls)].outcome = IF outcome.rejected THEN "rejected" ELSE "resolved"]

NoteThrows(r, sk) ==
    [r EXCEPT !.sinkThrew = @ \/ (r.sink = "any" /\ \E k \in sk.thr : k <= Len(r.log) - sk.base)]

\* runFullWorkflow(topic, onProgress) up to its first await.
runFullWorkflow(topic, sink, sk) ==
    LET r0 == [topic |-> topic, sink |-> sink, pc |-> "start", promise |-> "pending",
               log |-> <<>>, calls |-> <<>>, bestTitle |-> Undefined, sinkThrew |-> FALSE]
    IN  NoteThrows(runFullWorkflowCatch(runStepCall(r0, "titles", topic, sk)), sk)

\* runFullWorkflow from the settlement of the call of step r.pc to its next
\* await or its end.
runFullWorkflowResume(r, outcome, sk) ==
    LET stepId == r.pc
        r1 == runStepSettle(Settled(r, outcome), stepId, outcome, sk)
    IN  NoteThrows(runFullWorkflowCatch(
            IF r1.pc = "throw" THEN r1
            ELSE CASE stepId = "titles" -> afterTitles(r1, outcome.value, sk)
                   [] stepId = "hooks" -> afterHooks(r1, outcome.value, sk)
                   [] stepId = "script" -> afterScript(r1, outcome.value, sk)
                   [] stepId = "description" -> afterDescription(r1, outcome.value, sk)
                   [] stepId = "tags" -> afterTags(r1, outcome.value, sk)), sk)

\* --------------------------------------------------------------- App.tsx
\* workflowSteps is WorkflowStep[] | null.
NullSteps == [null |-> TRUE, list |-> <<>>]
StepList(l) == [null |-> FALSE, list |-> l]

initialSteps ==
    StepList([k \in 1..Len(StepIds) |->
        [id |-> StepIds[k], label |-> StepLabel(StepIds[k]), status |-> "pending", content |-> NullContent]])

\* Variant of onProgressCallback that always stores update.data.
onProgressCallback_overwrite(prevSteps, update) ==
    IF prevSteps.null THEN NullSteps
    ELSE StepList([k \in 1..Len(prevSteps.list) |->
            LET step == prevSteps.list[k] IN
            IF step.id = update.stepId
            THEN [step EXCEPT !.status = update.status, !.content = update.data]
            ELSE step])

\* The updater onProgressCallback hands to setWorkflowSteps.
onProgressCallback(prevSteps, update) ==
    IF prevSteps.null THEN NullSteps
    ELSE StepList([k \in 1..Len(prevSteps.list) |->
            LET step == prevSteps.list[k] IN
            IF step.id = update.stepId
            THEN [step EXCEPT !.status = update.status,
                              !.content = IF update.data # NoData THEN update.data ELSE @]
            ELSE step])

\* The updates log[from..] applied in order, as React applies queued updaters.
RECURSIVE ApplyUpdates(_, _, _)
ApplyUpdates(steps, log, from) ==
    IF from > Len(log) THEN steps
    ELSE ApplyUpdates(onProgressCallback(steps, log[from]), log, from + 1)

\* catch block of runAutomation: mark the active steps failed.
MarkActiveFailed(prev) ==
    IF prev.null THEN NullSteps
    ELSE StepList([k \in 1..Len(prev.list) |->
            IF prev.list[k].status \in {"running", "selecting"}
            THEN [prev.list[k] EXCEPT !.status = "failed"] ELSE prev.list[k]])

\* runAutomation after `await runFullWorkflow(...)` for a run in state r:
\* nothing while the promise is pending, then catch (if rejected) and finally.
runAutomationSettle(r, steps, loading, error) ==
    CASE r.promise = "pending" -> [steps |-> steps, loading |-> loading, error |-> error]
      [] r.promise = "resolved" -> [steps |-> steps, loading |-> FALSE, error |-> error]
      [] r.promise = "rejected" ->
            [steps |-> MarkActiveFailed(steps), loading |-> FALSE, error |-> UnexpectedMessage]

\* ======================================================================
\* selectBestOption of geminiService.ts.  A string is the sequence of its
\* characters, so that trim() and the literal comparison of includes() are
\* computed rather than assumed.
\* ======================================================================
Whitespace == {" "}
Chars == {"x"} \cup Whitespace
Texts == UNION {[1..n -> Chars] : n \in 0..MaxTextLen}
OptionLists == UNION {[1..n -> Texts] : n \in 0..MaxOptions}

RECURSIVE trimStart(_)
trimStart(s) == IF s # <<>> /\ Head(s) \in Whitespace THEN trimStart(Tail(s)) ELSE s

RECURSIVE trimEnd(_)
trimEnd(s) ==
    IF s # <<>> /\ s[Len(s)] \in Whitespace THEN trimEnd(SubSeq(s, 1, Len(s) - 1)) ELSE s

\* String.prototype.trim
trim(s) == trimEnd(trimStart(s))

\* Array.prototype.includes
includes(options, choice) == \E k \in 1..Len(options) : options[k] = choice

EmptyListMessage == "Cannot select from an empty list."
NoTextError == "TypeError"          \* response.text is undefined
ChooserError == "generateContent failed"

\* No call of selectBestOption has been made.  chooserCalls counts the
\* generateContent calls it issued; answered and answer record what the
\* chooser resolved with.
SelectionInit ==
    [pc |-> "idle", options |-> <<>>, purpose |-> "", chooserCalls |-> 0,
     answered |-> FALSE, answer |-> <<>>, result |-> <<>>, error |-> Null]

\* Variant: the single option is put to the chooser as well.
selectBestOption_asks(options, purpose) ==
    LET sel == [SelectionInit EXCEPT !.options = options, !.purpose = purpose] IN
    IF Len(options) = 0 THEN [sel EXCEPT !.pc = "thrown", !.error = EmptyListMessage]
    ELSE [sel EXCEPT !.pc = "awaiting", !.chooserCalls = @ + 1]

\* selectBestOption up to its await.
selectBestOption(options, purpose) ==
    LET sel == [SelectionInit EXCEPT !.options = options, !.purpose = purpose] IN
    IF Len(options) = 0 THEN [sel EXCEPT !.pc = "thrown", !.error = EmptyListMessage]
    ELSE IF Len(options) = 1 THEN [sel EXCEPT !.pc = "returned", !.result = options[1]]
    ELSE [sel EXCEPT !.pc = "awaiting", !.chooserCalls = @ + 1]

\* Variant: the answer is returned without the membership test.
selectBestOptionChoice_unchecked(sel, text) ==
    [sel EXCEPT !.pc = "returned", !.answered = TRUE, !.answer = text, !.result = trim(text)]

\* selectBestOption after the chooser resolved with response.text = text.
selectBestOptionChoice(sel, text) ==
    LET choice == trim(text) IN
    [sel EXCEPT !.pc = "returned", !.answered = TRUE, !.answer = text,
                !.result = IF includes(sel.options, choice) THEN choice ELSE sel.options[1]]

\* ======================================================================
\* The video generator of ToolView.tsx: handleVideoGenerationSubmit and its
\* poll loop.  One visit of the tool by one component instance is followed.
\* Each submission that gets past the prompt test is a job, numbered in the
\* order of submission; the timer a job creates carries the job's number.
\* ======================================================================
VideoPrompts == {"", "p"}
VideoUrl == "blob:U"                \* URL.createObjectURL(videoBlob)

PromptMissingMessage == "Please enter a prompt to generate the video."
InitializingMessage == "Initializing video generation..."
StartedMessage == "Video generation started. This process can take several minutes. Please wait..."
CheckingMessage == "Checking progress... Your video is being created."
FinalizingMessage == "Finalizing video..."
StillTryingMessage == "A temporary issue occurred. Still trying..."
NoLinkMessage == "Video generation finished, but no download link was found."
CredentialMessage == "Your API key is invalid or has expired. Please select a new one."

\* Messages of the errors a request can fail with; the first carries the
\* credential signature.
CredentialSignature == "Requested entity was not found"
NetworkError == "Failed to fetch"
ErrorMessages == {CredentialSignature, NetworkError}
IsCredentialError(message) == message = CredentialSignature

\* What checkVideoGenerationStatus can resolve with: not done, done with a
\* video uri, done without one.
CheckResults == {"running", "doneLink", "doneNoLink"}

NoTimer == 0

\* The state after the component has mounted.  Fields from `pending` on are
\* not state of the component: pending is the bag of the requests in flight,
\* each with the job it belongs to (overlapping status checks of one job are
\* equal requests), timers the interval timers that are active,
\* submits, checks and saved count the submissions, the status checks issued
\* and the projects saved, transient the checks that failed transiently, and
\* seen records events of the jobs as pairs <<job, event>>.
PollerInit ==
    [isLoading |-> FALSE, error |-> Null, generatedContent |-> Null,
     hasApiKey |-> FALSE, isCheckingApiKey |-> TRUE, loadingMessage |-> "",
     pollingIntervalRef |-> NoTimer,
     timers |-> {}, pending |-> EmptyBag, cancelled |-> FALSE,
     submits |-> 0, checks |-> 0, saved |-> 0, transient |-> 0, seen |-> {}]

Request(kind, job) == [kind |-> kind, job |-> job]

\* The request q is issued; the request q has settled.
Issue(p, q) == [p EXCEPT !.pending = @ (+) SetToBag({q})]
Answered(p, q) == [p EXCEPT !.pending = @ (-) SetToBag({q})]

Note(p, job, event) == [p EXCEPT !.seen = @ \cup {<<job, event>>}]

cleanupPolling(p) ==
    IF p.pollingIntervalRef # NoTimer
    THEN [p EXCEPT !.timers = @ \ {p.pollingIntervalRef}, !.pollingIntervalRef = NoTimer]
    ELSE p

\* Variant of startCatch that leaves the loading flag set.
startCatch_loading(p, message) ==
    [p EXCEPT !.error = message,
              !.hasApiKey = IF IsCredentialError(message) THEN FALSE ELSE @]

\* catch (err) of handleVideoGenerationSubmit.
startCatch(p, message) ==
    [p EXCEPT !.error = message,
              !.hasApiKey = IF IsCredentialError(message) THEN FALSE ELSE @,
              !.isLoading = FALSE]

\* Variant of pollCatch that gives up on any error.
pollCatch_givesUp(p, message) ==
    LET p1 == [p EXCEPT !.error = IF IsCredentialError(message) THEN CredentialMessage ELSE message,
                        !.hasApiKey = IF IsCredentialError(message) THEN FALSE ELSE @]
        p2 == cleanupPolling(p1)
    IN  [p2 EXCEPT !.isLoading = FALSE]

\* catch (pollError) of the poll tick.
pollCatch(p, message) ==
    IF IsCredentialError(message)
    THEN LET p1 == [p EXCEPT !.error = CredentialMessage, !.hasApiKey = FALSE]
             p2 == cleanupPolling(p1)
         IN  [p2 EXCEPT !.isLoading = FALSE]
    ELSE [p EXCEPT !.loadingMessage = StillTryingMessage]

\* The poll tick after `await checkVideoGenerationStatus(initialOp)` resolved,
\* for the status check q.
pollChecked(p, q, result) ==
    IF result = "running" THEN p
    ELSE LET p1 == [cleanupPolling(p) EXCEPT !.loadingMessage = FinalizingMessage] IN
         IF result = "doneLink"
         THEN Issue(p1, Request("fetch", q.job))
         ELSE pollCatch(p1, NoLinkMessage)

\* The poll tick of job `job` after the video blob has been read.
pollFinish(p, job) ==
    Note([p EXCEPT !.generatedContent = VideoUrl, !.saved = @ + 1, !.isLoading = FALSE],
         job, "saved")

\* ======================================================================
\* withRetry of apiService.ts.
\* ======================================================================
\* What one attempt of apiCall gives: it resolves with an ApiResponse (with
\* data, with an error message, or with the empty error message, which
\* `result.error` takes for no error), or it throws (an Error, or any other
\* value).
Response(data, error, status) ==
    [kind |-> "response", data |-> data, error |-> error, status |-> status]
Exception(isError, message) == [kind |-> "exception", isError |-> isError, message |-> message]
NoResponse == [kind |-> "undefined"]
UnknownErrorMessage == "Unknown error occurred"

ApiResponses ==
    {Response("d", Undefined, 200), Response(Undefined, "e1", 500),
     Response(Undefined, "e2", 503), Response(Undefined, "", 0)}
ApiExceptions == {Exception(TRUE, "x1"), Exception(FALSE, Undefined)}
Delays == {0, 1000}

Truthy(x) == x \notin {Undefined, ""}

\* calls counts the invocations of apiCall, attempts lists what they gave;
\* both are bookkeeping.
RetryInit ==
    [pc |-> "idle", maxRetries |-> 0, delay |-> 0, i |-> 0, lastError |-> NoResponse,
     timeout |-> 0, settled |-> NoResponse, calls |-> 0, attempts |-> <<>>]

\* The loop test and, when it holds, the call `apiCall()`; after the loop,
\* `return lastError`.
withRetryLoop(w) ==
    IF w.i <= w.maxRetries
    THEN [w EXCEPT !.pc = "call", !.calls = @ + 1]
    ELSE [w EXCEPT !.pc = "returned", !.settled = w.lastError]

\* `await new Promise(resolve => setTimeout(resolve, delay * Math.pow(2, i)))`
withRetryBackoff(w) == [w EXCEPT !.pc = "delay", !.timeout = w.delay * 2^(w.i)]

\* Variant of withRetryResult that returns lastError after the last attempt.
withRetryResult_lastError(w, result) ==
    IF Truthy(result.error)
    THEN IF w.i < w.maxRetries
         THEN withRetryBackoff([w EXCEPT !.lastError = result])
         ELSE [w EXCEPT !.pc = "returned", !.settled = w.lastError]
    ELSE [w EXCEPT !.pc = "returned", !.settled = result]

\* The attempt resolved with `result`.
withRetryResult(w, result) ==
    IF Truthy(result.error) /\ w.i < w.maxRetries
    THEN withRetryBackoff([w EXCEPT !.lastError = result])
    ELSE [w EXCEPT !.pc = "returned", !.settled = result]

\* The attempt threw `error`.
withRetryCatch(w, error) ==
    IF w.i < w.maxRetries
    THEN withRetryBackoff([w EXCEPT !.lastError =
            Response(Undefined, IF error.isError THEN error.message ELSE UnknownErrorMessage, 0)])
    ELSE [w EXCEPT !.pc = "thrown", !.settled = error]

\* `continue`: i++ and the loop test.
withRetryContinue(w) == withRetryLoop([w EXCEPT !.i = @ + 1, !.timeout = 0])

Init ==
    /\ runs = <<>>
    /\ agentPrompt = ""
    /\ isLoadingAgent = FALSE
    /\ agentError = Null
    /\ workflowSteps = NullSteps
    /\ poller = PollerInit
    /\ selection = SelectionInit
    /\ retry = RetryInit

\* runAutomation(topic), called by handleAgentSubmit and handleTopicClick.
\* The submit and trending-topic buttons are rendered disabled while
\* isLoadingAgent is true; the action is the callback itself, whose own two
\* guards are all that protects a call made in any other way, so it may be
\* called in every state.  It reads isLoadingAgent and agentPrompt as of the
\* latest render, and its first segment runs up to the await of the titles
\* call.
RunAutomation(topic) ==
    /\ UNCHANGED <<poller, selection, retry>>
    /\ IF topic = ""
       THEN /\ agentError' = EmptyTopicMessage
            /\ UNCHANGED <<runs, agentPrompt, isLoadingAgent, workflowSteps>>
       ELSE IF isLoadingAgent /\ agentPrompt = topic
       THEN UNCHANGED <<runs, appVars>>
       ELSE /\ Len(runs) < MaxRuns
            /\ LET r == runFullWorkflow(topic, "app", [base |-> 0, thr |-> {}])
                   after == runAutomationSettle(r, ApplyUpdates(initialSteps, r.log, 1), TRUE, Null)
               IN  /\ runs' = Append(runs, r)
                   /\ agentPrompt' = topic
                   /\ isLoadingAgent' = after.loading
                   /\ agentError' = after.error
                   /\ workflowSteps' = after.steps

\* onChange of the agent-prompt textarea.
EditPrompt(value) ==
    /\ agentPrompt' = value
    /\ workflowSteps' = NullSteps
    /\ agentError' = Null
    /\ UNCHANGED <<runs, isLoadingAgent, poller, selection, retry>>

\* The generation call run i is waiting for settles.
Settle(i, outcome, thr) ==
    /\ UNCHANGED <<poller, selection, retry>>
    /\ i \in 1..Len(runs)
    /\ runs[i].pc \in StepIdSet
    /\ LET r == runs[i]
           r2 == runFullWorkflowResume(r, outcome, [base |-> Len(r.log), thr |-> thr])
       IN  /\ runs' = [runs EXCEPT ![i] = r2]
           /\ IF r.sink = "app"
              THEN LET after == runAutomationSettle(r2,
                                    ApplyUpdates(workflowSteps, r2.log, Len(r.log) + 1),
                                    isLoadingAgent, agentError)
                   IN  /\ workflowSteps' = after.steps
                       /\ isLoadingAgent' = after.loading
                       /\ agentError' = after.error
                       /\ UNCHANGED agentPrompt
              ELSE UNCHANGED appVars

BackendResolve(i, value, thr) ==
    /\ i \in 1..Len(runs)
    /\ runs[i].pc \in StepIdSet
    /\ value \in Values(runs[i].pc)
    /\ Settle(i, Resolved(value), thr)

BackendReject(i, thr) ==
    /\ Settle(i, Rejected, thr)

AllValues == UNION {Values(StepIds[k]) : k \in 1..Len(StepIds)}

\* The responses the prompts ask for: a title object with a titles list and a
\* best title, a script object with an `alternatives` section, a description
\* object without one.
PromptedValues ==
    {v \in AllValues :
        CASE v.of = "titles" -> v.hasTitles /\ ~v.alt /\ v.titles = <<"T1", "T2">> /\ v.best = "T2"
          [] v.of = "script" -> v.alt
          [] v.of = "description" -> ~v.alt
          [] OTHER -> TRUE}

Next ==
    \/ \E topic \in PromptValues : RunAutomation(topic)
    \/ \E value \in PromptValues : EditPrompt(value)
    \/ \E i \in 1..MaxRuns, value \in PromptedValues : BackendResolve(i, value, {})
    \/ \E i \in 1..MaxRuns : BackendReject(i, {})

Spec == Init /\ [][Next]_vars

\* runFullWorkflow called on its own with an arbitrary progress sink.  The
\* function keeps no state between invocations, so one invocation is followed.
CallRunFullWorkflow(topic, thr) ==
    /\ runs = <<>>
    /\ runs' = <<runFullWorkflow(topic, "any", [base |-> 0, thr |-> thr])>>
    /\ UNCHANGED <<appVars, poller, selection, retry>>

SinkChoices == SUBSET (1..MaxSegEmit)

NextWF ==
    \/ \E topic \in PromptValues, thr \in SinkChoices : CallRunFullWorkflow(topic, thr)
    \/ \E value \in AllValues, thr \in SinkChoices : BackendResolve(1, value, thr)
    \/ \E thr \in SinkChoices : BackendReject(1, thr)

SpecWF == Init /\ [][NextWF]_vars

\* ---------------------------------------------------------- poller actions
\* The effect of mount: hasSelectedApiKey() resolves.
ApiKeyChecked(hasKey) ==
    /\ poller.isCheckingApiKey
    /\ poller' = [poller EXCEPT !.hasApiKey = hasKey, !.isCheckingApiKey = FALSE]
    /\ UNCHANGED <<runs, appVars, selection, retry>>

\* The button 'Generate Video with Veo' (type submit) is rendered.
GenerateButtonRendered ==
    poller.hasApiKey /\ ~poller.isLoading /\ poller.generatedContent = Null

\* The button 'Select API Key' is rendered.  It stands inside the form and
\* has no type attribute, so it is a submit button as well: a click opens
\* the key dialog and submits the form.
SelectKeyButtonRendered == ~poller.hasApiKey

\* The form of the video tool can be submitted.
VideoSubmitRendered ==
    /\ ~poller.cancelled
    /\ GenerateButtonRendered \/ SelectKeyButtonRendered

\* handleVideoGenerationSubmit up to `await startVideoGeneration(prompt)`.
VideoSubmit(prompt) ==
    /\ VideoSubmitRendered
    /\ IF prompt = ""
       THEN poller' = [poller EXCEPT !.error = PromptMissingMessage]
       ELSE /\ poller.submits < MaxSubmits
            /\ poller' = Issue([poller EXCEPT !.isLoading = TRUE, !.error = Null,
                                              !.generatedContent = Null,
                                              !.loadingMessage = InitializingMessage,
                                              !.submits = @ + 1],
                               Request("start", poller.submits + 1))
    /\ UNCHANGED <<runs, appVars, selection, retry>>

\* startVideoGeneration resolved: the interval timer is created.
StartResolve(q) ==
    /\ BagIn(q, poller.pending) /\ q.kind = "start"
    /\ poller' = [Answered(poller, q) EXCEPT !.loadingMessage = StartedMessage,
                                            !.pollingIntervalRef = q.job,
                                            !.timers = @ \cup {q.job}]
    /\ UNCHANGED <<runs, appVars, selection, retry>>

\* startVideoGeneration rejected: outer catch of handleVideoGenerationSubmit.
StartReject(q, message) ==
    /\ BagIn(q, poller.pending) /\ q.kind = "start"
    /\ poller' = Note(startCatch(Answered(poller, q), message), q.job, "startFailed")
    /\ UNCHANGED <<runs, appVars, selection, retry>>

\* The interval timer of job t fires: the tick up to its await of the status
\* check.  Ticks come every 10 s whether or not earlier checks have returned.
Tick(t) ==
    /\ t \in poller.timers
    /\ poller.checks < MaxChecks
    /\ poller' = Issue([poller EXCEPT !.loadingMessage = CheckingMessage, !.checks = @ + 1],
                       Request("check", t))
    /\ UNCHANGED <<runs, appVars, selection, retry>>

\* A status check resolved.
CheckResolve(q, result) ==
    /\ BagIn(q, poller.pending) /\ q.kind = "check"
    /\ LET p == Answered(poller, q) IN
       poller' = pollChecked(IF result = "doneLink" THEN Note(p, q.job, "doneLink") ELSE p,
                             q, result)
    /\ UNCHANGED <<runs, appVars, selection, retry>>

\* A status check rejected.
CheckReject(q, message) ==
    /\ BagIn(q, poller.pending) /\ q.kind = "check"
    /\ LET p == Answered(poller, q) IN
       poller' = pollCatch(IF IsCredentialError(message)
                           THEN Note(p, q.job, "credential")
                           ELSE [p EXCEPT !.transient = @ + 1],
                           message)
    /\ UNCHANGED <<runs, appVars, selection, retry>>

\* fetch(downloadLink) resolved: the tick goes on to read the blob.
FetchResolve(q) ==
    /\ BagIn(q, poller.pending) /\ q.kind = "fetch"
    /\ poller' = Issue(Answered(poller, q), Request("blob", q.job))
    /\ UNCHANGED <<runs, appVars, selection, retry>>

\* videoResponse.blob() resolved.
BlobResolve(q) ==
    /\ BagIn(q, poller.pending) /\ q.kind = "blob"
    /\ poller' = pollFinish(Answered(poller, q), q.job)
    /\ UNCHANGED <<runs, appVars, selection, retry>>

\* fetch or blob() rejected.
DownloadReject(q) ==
    /\ BagIn(q, poller.pending) /\ q.kind \in {"fetch", "blob"}
    /\ poller' = pollCatch(Answered(poller, q), NetworkError)
    /\ UNCHANGED <<runs, appVars, selection, retry>>

\* The cleanup of the effect (unmount or change of tool.id).
Cleanup ==
    /\ ~poller.cancelled
    /\ poller' = [cleanupPolling(poller) EXCEPT !.cancelled = TRUE]
    /\ UNCHANGED <<runs, appVars, selection, retry>>

Jobs == 1..MaxSubmits
Requests ==
    {Request(k, j) : k \in {"start", "check", "fetch", "blob"}, j \in Jobs}

NextPoll ==
    \/ \E hasKey \in BOOLEAN : ApiKeyChecked(hasKey)
    \/ \E prompt \in VideoPrompts : VideoSubmit(prompt)
    \/ \E q \in Requests : StartResolve(q)
    \/ \E q \in Requests, m \in ErrorMessages : StartReject(q, m)
    \/ \E t \in Jobs : Tick(t)
    \/ \E q \in Requests, result \in CheckResults : CheckResolve(q, result)
    \/ \E q \in Requests, m \in ErrorMessages : CheckReject(q, m)
    \/ \E q \in Requests : FetchResolve(q)
    \/ \E q \in Requests : BlobResolve(q)
    \/ \E q \in Requests : DownloadReject(q)
    \/ Cleanup

SpecPoll == Init /\ [][NextPoll]_vars

\* withRetry(apiCall, maxRetries, delay), up to its first await.
CallWithRetry(maxRetries, delay) ==
    /\ retry.pc = "idle"
    /\ retry' = withRetryLoop([RetryInit EXCEPT !.maxRetries = maxRetries, !.delay = delay])
    /\ UNCHANGED <<runs, appVars, poller, selection>>

Attempted(w, outcome) == [w EXCEPT !.attempts = Append(@, outcome)]

\* The promise of apiCall resolves.
ApiResolve(result) ==
    /\ retry.pc = "call"
    /\ retry' = withRetryResult(Attempted(retry, result), result)
    /\ UNCHANGED <<runs, appVars, poller, selection>>

\* apiCall throws, or its promise rejects.
ApiReject(error) ==
    /\ retry.pc = "call"
    /\ retry' = withRetryCatch(Attempted(retry, error), error)
    /\ UNCHANGED <<runs, appVars, poller, selection>>

\* The timer of the delay fires.
DelayElapsed ==
    /\ retry.pc = "delay"
    /\ retry' = withRetryContinue(retry)
    /\ UNCHANGED <<runs, appVars, poller, selection>>

NextRetry ==
    \/ \E maxRetries \in -1..MaxRetries, delay \in Delays : CallWithRetry(maxRetries, delay)
    \/ \E result \in ApiResponses : ApiResolve(result)
    \/ \E error \in ApiExceptions : ApiReject(error)
    \/ DelayElapsed

\* Every call of apiCall settles and every timer fires.
RetryFairness ==
    /\ WF_vars(\/ \E result \in ApiResponses : ApiResolve(result)
               \/ \E error \in ApiExceptions : ApiReject(error))
    /\ WF_vars(DelayElapsed)

SpecRetry == Init /\ [][NextRetry]_vars /\ RetryFairness

\* ------------------------------------------------ selectBestOption actions
Purposes == {"a viral YouTube video title"}

CallSelectBestOption(options, purpose) ==
    /\ selection.pc = "idle"
    /\ selection' = selectBestOption(options, purpose)
    /\ UNCHANGED <<runs, appVars, poller, retry>>

\* generateContent resolved and response.text is the string `text`.
ChooserResolve(text) ==
    /\ selection.pc = "awaiting"
    /\ selection' = selectBestOptionChoice(selection, text)
    /\ UNCHANGED <<runs, appVars, poller, retry>>

\* generateContent resolved without text: response.text.trim() throws.
ChooserResolveNoText ==
    /\ selection.pc = "awaiting"
    /\ selection' = [selection EXCEPT !.pc = "thrown", !.error = NoTextError]
    /\ UNCHANGED <<runs, appVars, poller, retry>>

\* generateContent rejected.
ChooserReject ==
    /\ selection.pc = "awaiting"
    /\ selection' = [selection EXCEPT !.pc = "thrown", !.error = ChooserError]
    /\ UNCHANGED <<runs, appVars, poller, retry>>

NextSelect ==
    \/ \E options \in OptionLists, purpose \in Purposes : CallSelectBestOption(options, purpose)
    \/ \E text \in Texts : ChooserResolve(text)
    \/ ChooserResolveNoText
    \/ ChooserReject

SpecSelect == Init /\ [][NextSelect]_vars

\* ======================================================================
\* Properties of one run of runFullWorkflow (checked under SpecWF)
\* ======================================================================
Terminal == {"completed", "failed"}
RunIds == 1..Len(runs)
UpdatesOf(r, s) == {j \in 1..Len(r.log) : r.log[j].stepId = s}
Started(r) == {s \in StepIdSet : UpdatesOf(r, s) # {}}
SetMax(S) == CHOOSE x \in S : \A y \in S : y <= x
SetMin(S) == CHOOSE x \in S : \A y \in S : x <= y
\* The status last reported for step s ("pending" when nothing was reported).
ReportedStatus(r, s) ==
    IF UpdatesOf(r, s) = {} THEN "pending" ELSE r.log[SetMax(UpdatesOf(r, s))].status
\* The derived status of the run.
DerivedStatus(r) ==
    IF \E s \in StepIdSet : ReportedStatus(r, s) = "failed" THEN "failed"
    ELSE IF \A s \in StepIdSet : ReportedStatus(r, s) = "completed" THEN "completed"
    ELSE "running"

\* C1: abort on failure.  When the generation call of a step rejects, a
\* Failed update for that step follows, no further call is issued, and the
\* log never holds an update for a later step nor a Running update after the
\* rejected call.
C1_AbortOnFailure ==
    \A i \in RunIds : \A k \in 1..Len(runs[i].calls) :
        LET r == runs[i]
            c == r.calls[k]
        IN  c.outcome = "rejected" =>
                /\ \E j \in (c.at + 1)..Len(r.log) :
                        r.log[j].stepId = c.step /\ r.log[j].status = "failed"
                /\ \A j \in 1..Len(r.log) : StepIndex(r.log[j].stepId) <= StepIndex(c.step)
                /\ \A j \in (c.at + 1)..Len(r.log) : r.log[j].status # "running"
                /\ Len(r.calls) = k
                /\ r.pc = "done"

C1_Witness ==
    \E i \in RunIds : \E k \in 1..Len(runs[i].calls) :
        runs[i].calls[k].outcome = "rejected" /\ runs[i].calls[k].step = "script"

\* C2 (as claimed): every step that has started has a Running update first
\* and at most one terminal update, exactly one once the step is over (a later
\* step has started or the run has returned), and that terminal update
\* precedes every update of a later step.
C2_Claim ==
    \A i \in RunIds : \A s \in Started(runs[i]) :
        LET r == runs[i]
            upd == UpdatesOf(r, s)
            term == {j \in upd : r.log[j].status \in Terminal}
            later == {j \in 1..Len(r.log) : StepIndex(r.log[j].stepId) > StepIndex(s)}
        IN  /\ r.log[SetMin(upd)].status = "running"
            /\ Cardinality(term) <= 1
            /\ (later # {} \/ r.pc = "done") => Cardinality(term) = 1
            /\ \A j \in later : \A t \in term : t < j

\* C3 (as claimed): the statuses reported for one step follow
\* Running -> [Selecting] -> Completed or Running -> Failed: the first is
\* Running, Selecting only follows Running, and nothing non-terminal follows
\* a terminal status.
C3_Claim ==
    \A i \in RunIds : \A s \in Started(runs[i]) :
        LET r == runs[i]
            upd == UpdatesOf(r, s)
        IN  /\ r.log[SetMin(upd)].status = "running"
            /\ \A j \in upd : j # SetMin(upd) =>
                   LET prev == r.log[SetMax({h \in upd : h < j})].status
                       next == r.log[j].status
                   IN  /\ next # "running"
                       /\ next = "selecting" => prev = "running"
                       /\ prev \in Terminal => next \in Terminal

\* C4: strict sequencing.  The calls are issued in the fixed step order, the
\* call of step N+1 is issued only after a Completed update of step N, the
\* Running updates appear in step order, and at most one call is pending.
C4_StrictSequence ==
    \A i \in RunIds :
        LET r == runs[i] IN
        /\ Len(r.calls) <= Len(StepIds)
        /\ \A k \in 1..Len(r.calls) : r.calls[k].step = StepIds[k]
        /\ \A k \in 2..Len(r.calls) :
               \E j \in 1..(r.calls[k].at - 1) :
                   r.log[j].stepId = StepIds[k - 1] /\ r.log[j].status = "completed"
        /\ \A j1, j2 \in 1..Len(r.log) :
               (j1 < j2 /\ r.log[j1].status = "running" /\ r.log[j2].status = "running")
                   => StepIndex(r.log[j1].stepId) < StepIndex(r.log[j2].stepId)
        /\ Cardinality({k \in 1..Len(r.calls) : r.calls[k].outcome = "pending"}) <= 1

C4_Witness ==
    \E i \in RunIds : Len(runs[i].calls) = Len(StepIds) /\ runs[i].pc = "tags"

\* C6 (as claimed): in every update that carries a selection result, chosen
\* is null or one of the alternatives.
C6_Claim ==
    \A i \in RunIds : \A j \in 1..Len(runs[i].log) :
        LET d == runs[i].log[j].data IN
        d.kind = "selection" =>
            \/ d.chosen = Null
            \/ \E n \in 1..Len(d.alternatives) : d.alternatives[n] = d.chosen

\* C7: the winner feeds forward.  The input of every call after the titles
\* call is the `chosen` of the last update of the titles step, which is a
\* Completed update carrying a selection result.
C7_WinnerFeedsForward ==
    \A i \in RunIds : \A k \in 2..Len(runs[i].calls) :
        LET r == runs[i]
            upd == UpdatesOf(r, "titles")
        IN  /\ upd # {}
            /\ LET final == r.log[SetMax(upd)] IN
               /\ final.status = "completed"
               /\ final.data.kind = "selection"
               /\ final.data.chosen = r.calls[k].input

C7_Witness ==
    \E i \in RunIds :
        /\ Len(runs[i].calls) = Len(StepIds)
        /\ runs[i].calls[Len(StepIds)].input = "T1"
        /\ runs[i].topic = "a"

\* C8: runFullWorkflow never rejects.  Whatever the calls return and whenever
\* the sink throws, no error is left uncaught and the promise is resolved
\* exactly when the function has returned.
C8_NeverRejects ==
    \A i \in RunIds :
        /\ runs[i].promise # "rejected"
        /\ runs[i].pc \in StepIdSet \cup {"done"}
        /\ runs[i].pc = "done" <=> runs[i].promise = "resolved"

C8_Witness ==
    \E i \in RunIds :
        /\ runs[i].sinkThrew
        /\ runs[i].promise = "resolved"
        /\ \E k \in 1..Len(runs[i].calls) : runs[i].calls[k].outcome = "rejected"

\* C9 (as claimed): when runFullWorkflow has returned (and the sink never
\* threw), the derived status of the run is Completed or Failed.
C9_Claim ==
    \A i \in RunIds :
        (runs[i].pc = "done" /\ ~runs[i].sinkThrew)
            => DerivedStatus(runs[i]) \in {"completed", "failed"}

\* ======================================================================
\* Properties of runAutomation (checked under Spec)
\* ======================================================================
\* A run started by runAutomation for topic t is still in flight.
InFlight(t) ==
    \E i \in RunIds : runs[i].sink = "app" /\ runs[i].topic = t /\ runs[i].promise = "pending"

\* C5 (as claimed): runAutomation with an empty or whitespace-only topic
\* shows the validation error and starts nothing: no run, no update, the
\* step list untouched.
C5_Claim ==
    [][\A t \in {"", " "} :
          RunAutomation(t) =>
              /\ agentError' = EmptyTopicMessage
              /\ runs' = runs
              /\ workflowSteps' = workflowSteps]_vars

\* C10 (as claimed): while a run for topic t is in flight, runAutomation(t)
\* starts no run and leaves the step list and the loading flag alone.
C10_Claim ==
    [][\A t \in PromptValues :
          (InFlight(t) /\ RunAutomation(t)) =>
              /\ runs' = runs
              /\ workflowSteps' = workflowSteps
              /\ isLoadingAgent' = isLoadingAgent]_vars

\* C11 (as claimed): once runAutomation has started a run for another topic
\* while an earlier run is still in flight, no progress update of the earlier
\* run changes the step list, which now is the list of the new run.
C11_Claim ==
    [][\A i \in RunIds :
          (/\ runs[i].promise = "pending"
           /\ \E j \in RunIds : j > i /\ runs[j].sink = "app" /\ runs[j].topic # runs[i].topic
           /\ \/ \E v \in PromptedValues : BackendResolve(i, v, {})
              \/ BackendReject(i, {}))
          => workflowSteps' = workflowSteps]_vars

\* C12: with two or more options, whatever selectBestOption returns is an
\* element of options: the chooser's trimmed answer when that is literally
\* one of the options, otherwise options[0]; and it returns whenever the
\* chooser has answered.
C12_ReturnsAnOption ==
    (selection.pc # "idle" /\ Len(selection.options) >= 2) =>
        /\ selection.answered => selection.pc = "returned"
        /\ selection.pc = "returned" =>
              /\ includes(selection.options, selection.result)
              /\ selection.result = IF includes(selection.options, trim(selection.answer))
                                    THEN trim(selection.answer)
                                    ELSE selection.options[1]

\* The chooser's answer carried whitespace, its trimmed form is an option
\* other than the first, and that option was returned.
C12_Witness ==
    /\ selection.pc = "returned" /\ Len(selection.options) >= 2
    /\ trim(selection.answer) # selection.answer
    /\ selection.result = trim(selection.answer)
    /\ selection.result # selection.options[1]

\* C13: with exactly one option selectBestOption returns that option and
\* issues no chooser call.
C13_ShortCircuit ==
    (selection.pc # "idle" /\ Len(selection.options) = 1) =>
        /\ selection.pc = "returned"
        /\ selection.result = selection.options[1]
        /\ selection.chooserCalls = 0

C13_Witness ==
    /\ selection.pc = "returned" /\ Len(selection.options) = 1
    /\ selection.result = selection.options[1]
    /\ selection.chooserCalls = 0

\* C14 (as claimed): when runFullWorkflow reports the titles step Completed,
\* selectBestOption has been invoked on the title alternatives and `chosen`
\* is what it returned.
C14_Claim ==
    \A i \in RunIds : \A k \in 1..Len(runs[i].log) :
        LET u == runs[i].log[k] IN
        (u.stepId = "titles" /\ u.status = "completed" /\ u.data.kind = "selection") =>
            /\ selection.pc = "returned"
            /\ selection.options = u.data.alternatives
            /\ selection.result = u.data.chosen

\* ------------------------------------------------- claims on the poller
\* The requests issued by a step.
Issued == {q \in Requests : CopiesIn(q, poller'.pending) > CopiesIn(q, poller.pending)}

\* A step is an event of job j: a tick of its timer or the settlement of one
\* of its status checks or downloads.
EventOf(j) ==
    \/ Tick(j)
    \/ \E q \in Requests :
          /\ q.job = j
          /\ \/ \E result \in CheckResults : CheckResolve(q, result)
             \/ \E m \in ErrorMessages : CheckReject(q, m)
             \/ FetchResolve(q) \/ BlobResolve(q) \/ DownloadReject(q)

\* C15 (as claimed): once a status check of a job has returned done with a
\* download link, no later tick of the job issues a check, the video is not
\* fetched a second time and the project is not saved a second time, also
\* when checks overlap.
C15_Claim ==
    [][\A j \in Jobs :
          <<j, "doneLink">> \in poller.seen =>
              /\ ~Tick(j)
              /\ ~\E q \in Issued : q.kind = "fetch" /\ q.job = j
              /\ <<j, "saved">> \in poller.seen => poller'.saved = poller.saved]_vars

\* C16 (as claimed): a status check that returns done without a download
\* link stops the polling and ends the generation as failed: the error
\* 'finished, but no download link' is shown and the loading flag cleared.
C16_Claim ==
    [][\A q \in Requests :
          CheckResolve(q, "doneNoLink") =>
              /\ poller'.pollingIntervalRef = NoTimer
              /\ poller'.error = NoLinkMessage
              /\ ~poller'.isLoading]_vars

\* C17 (as claimed): a status check that fails with the credential signature
\* clears the interval timer of its job in that same step, clears the loading
\* flag, shows the credential error and sets hasApiKey to false; and no tick
\* of the job issues a status check after such a failure.
C17_Claim ==
    /\ [][\A q \in Requests :
            CheckReject(q, CredentialSignature) =>
                /\ q.job \notin poller'.timers
                /\ ~poller'.isLoading
                /\ poller'.error = CredentialMessage
                /\ ~poller'.hasApiKey]_vars
    /\ [][\A j \in Jobs : <<j, "credential">> \in poller.seen => ~Tick(j)]_vars

\* C18: a status check that fails with any other error stops nothing: the
\* timers and the loading flag are left as they are and the 'still trying'
\* message is shown; a running timer can tick again however many checks have
\* failed (MaxChecks bounds the behaviours examined, not the program).
C18_TransientErrorContinues ==
    /\ [][\A q \in Requests :
            CheckReject(q, NetworkError) =>
                /\ poller'.timers = poller.timers
                /\ poller'.pollingIntervalRef = poller.pollingIntervalRef
                /\ poller'.isLoading = poller.isLoading
                /\ poller'.loadingMessage = StillTryingMessage]_vars
    /\ [](\A t \in poller.timers : poller.checks < MaxChecks => ENABLED Tick(t))

\* Two checks have failed transiently, the timer is still running, the form
\* is still loading and the message is shown.
C18_Witness ==
    /\ poller.transient >= 2
    /\ ~poller.cancelled
    /\ poller.timers # {} /\ poller.pollingIntervalRef \in poller.timers
    /\ poller.isLoading
    /\ poller.loadingMessage = StillTryingMessage
    /\ poller.seen = {}

\* C19 (as claimed): after the cleanup of the effect has run, no interval
\* timer of the poller is active and no tick fires.
C19_Claim ==
    /\ [](poller.cancelled => poller.timers = {})
    /\ [][poller.cancelled => \A t \in Jobs : ~Tick(t)]_vars

\* The state of the component the poller writes.
PollerState(p) == <<p.isLoading, p.error, p.generatedContent, p.loadingMessage>>

\* C20 (as claimed): after the cleanup of the effect has run, the poller makes
\* no network call, no state update and no project save.
C20_Claim ==
    [][poller.cancelled =>
          /\ Issued = {}
          /\ PollerState(poller') = PollerState(poller)
          /\ poller'.saved = poller.saved]_vars

\* C21 (as claimed): at most one interval timer of the poller is active, and
\* every active timer is the one pollingIntervalRef refers to.
C21_Claim ==
    /\ Cardinality(poller.timers) <= 1
    /\ \A t \in poller.timers : t = poller.pollingIntervalRef

\* C22: when startVideoGeneration rejects, the message of the error is shown
\* and the loading flag cleared in that step, which creates no timer and
\* issues no request; and the job never has a timer, a tick or a request.
C22_StartFailureStartsNothing ==
    /\ [][\A q \in Requests, m \in ErrorMessages :
            StartReject(q, m) =>
                /\ poller'.error = m
                /\ ~poller'.isLoading
                /\ poller'.timers = poller.timers
                /\ poller'.pollingIntervalRef = poller.pollingIntervalRef
                /\ Issued = {}]_vars
    /\ [](\A j \in Jobs :
            <<j, "startFailed">> \in poller.seen =>
                /\ j \notin poller.timers
                /\ \A q \in Requests : q.job = j => ~BagIn(q, poller.pending))
    /\ [][\A j \in Jobs : <<j, "startFailed">> \in poller.seen => ~EventOf(j)]_vars

\* The start call of the first job was rejected while the form was loading:
\* the error is shown, nothing is loading, no timer runs, no check was issued.
C22_Witness ==
    /\ <<1, "startFailed">> \in poller.seen
    /\ poller.submits = 1
    /\ poller.error = NetworkError
    /\ ~poller.isLoading
    /\ poller.timers = {} /\ poller.checks = 0 /\ poller.pending = EmptyBag

\* C26 (as claimed): a failed download ends the generation with an error
\* shown and the loading flag cleared, and the form is never left loading
\* with no timer active and no request in flight.
C26_Claim ==
    /\ [][\A q \in Requests :
            DownloadReject(q) => poller'.error # Null /\ ~poller'.isLoading]_vars
    /\ [](~poller.cancelled =>
            ~(poller.isLoading /\ poller.timers = {} /\ poller.pending = EmptyBag))

\* Job j has succeeded (the project was saved) or has failed for good (a
\* status check raised the credential error).
TerminalJob(j) == <<j, "saved">> \in poller.seen \/ <<j, "credential">> \in poller.seen

\* C27 (as claimed): once a job is terminal, no later event of the job
\* changes the generated content, the error, hasApiKey or the saved projects.
C27_Claim ==
    [][\A j \in Jobs :
          (TerminalJob(j) /\ EventOf(j)) =>
              /\ poller'.generatedContent = poller.generatedContent
              /\ poller'.error = poller.error
              /\ poller'.hasApiKey = poller.hasApiKey
              /\ poller'.saved = poller.saved]_vars

\* ======================================================================
\* Further properties of runAutomation (checked under Spec)
\* ======================================================================
\* C23 (as claimed): when a run ends with a step reported Failed, the step
\* in which it ends leaves the error banner set.
C23_Claim ==
    [][\A i \in RunIds :
          (/\ runs[i].pc # "done"
           /\ runs'[i].pc = "done"
           /\ DerivedStatus(runs'[i]) = "failed") => agentError' # Null]_vars

\* The kinds of value the type StepContent declares: null, a text, a list of
\* texts, a selection result.  An update may also carry no data at all.
DeclaredContent(c) == c.kind \in {"null", "string", "array", "selection"}

\* C24 (as claimed): the content of every step of the list and the data of
\* every progress update is of the declared union, never a raw response.
C24_Claim ==
    /\ ~workflowSteps.null =>
          \A k \in 1..Len(workflowSteps.list) : DeclaredContent(workflowSteps.list[k].content)
    /\ \A i \in RunIds : \A j \in 1..Len(runs[i].log) :
          LET d == runs[i].log[j].data IN d = NoData \/ DeclaredContent(d)

\* C25: a call of runAutomation that starts a run publishes the five steps
\* in order, pending and without content, and the run's first progress
\* update, Running for titles, is applied to that list before the first
\* generation call is issued.
C25_InitialisedBeforeCalls ==
    [][\A t \in PromptValues \ {""} :
          (RunAutomation(t) /\ runs' # runs) =>
              LET r == runs'[Len(runs')] IN
              /\ Len(initialSteps.list) = 5
              /\ \A k \in 1..5 :
                    /\ initialSteps.list[k].id = StepIds[k]
                    /\ initialSteps.list[k].status = "pending"
                    /\ initialSteps.list[k].content = NullContent
              /\ r.topic = t
              /\ r.log = <<Update("titles", "running", NoData)>>
              /\ Len(r.calls) = 1 /\ r.calls[1].step = "titles" /\ r.calls[1].at = 1
              /\ workflowSteps' = StepList([initialSteps.list EXCEPT ![1].status = "running"])]_vars

C25_Witness ==
    /\ Len(runs) = 1
    /\ runs[1].topic = "a" /\ runs[1].pc = "titles" /\ Len(runs[1].log) = 1
    /\ ~workflowSteps.null
    /\ workflowSteps.list[1].status = "running"
    /\ \A k \in 2..5 : workflowSteps.list[k].status = "pending"
    /\ \A k \in 1..5 : workflowSteps.list[k].content = NullContent

\* C28: frame of a progress update.  For the step list of every reachable
\* state and every update a run has emitted, onProgressCallback changes only
\* the step named by the update, keeps number and order of the steps, keeps
\* the content when the update has no data, and maps null to null; and a
\* step of a run never turns a null list into a list.
C28_UpdateFrame ==
    /\ [](\A i \in RunIds : \A j \in 1..Len(runs[i].log) :
            LET u == runs[i].log[j]
                prev == workflowSteps
                next == onProgressCallback(prev, u)
            IN  /\ next.null = prev.null
                /\ Len(next.list) = Len(prev.list)
                /\ \A k \in 1..Len(prev.list) :
                      IF prev.list[k].id # u.stepId
                      THEN next.list[k] = prev.list[k]
                      ELSE /\ next.list[k].id = prev.list[k].id
                           /\ next.list[k].label = prev.list[k].label
                           /\ next.list[k].status = u.status
                           /\ next.list[k].content =
                                 IF u.data = NoData THEN prev.list[k].content ELSE u.data)
    /\ [][(workflowSteps.null /\ runs' # runs /\ Len(runs') = Len(runs))
              => workflowSteps'.null]_vars

\* A step is shown Failed with the content it had before.
C28_Witness ==
    /\ ~workflowSteps.null
    /\ \E k \in 1..Len(workflowSteps.list) :
          /\ workflowSteps.list[k].status = "failed"
          /\ workflowSteps.list[k].content # NullContent

\* C29 (as claimed): the loading flag is set while any run started by
\* runAutomation is in flight.
C29_Claim ==
    (\E i \in RunIds : runs[i].sink = "app" /\ runs[i].promise = "pending") => isLoadingAgent

\* ======================================================================
\* Properties of withRetry (checked under SpecRetry)
\* ======================================================================
\* C30: bounded retry.  For maxRetries >= 0, apiCall is invoked at most
\* maxRetries + 1 times; an attempt whose result carries no error is the
\* last one and its result is returned; after attempt maxRetries + 1 its
\* result is returned, or its exception rethrown; and every call of
\* withRetry comes to an end.
C30_BoundedRetry ==
    /\ [](retry.maxRetries >= 0 =>
            LET n == Len(retry.attempts) IN
            /\ retry.calls <= retry.maxRetries + 1
            /\ n <= retry.calls
            /\ \A k \in 1..n :
                  (retry.attempts[k].kind = "response" /\ retry.attempts[k].error = Undefined) =>
                      /\ k = n /\ retry.calls = n
                      /\ retry.pc = "returned" /\ retry.settled = retry.attempts[k]
            /\ n = retry.maxRetries + 1 =>
                  /\ retry.settled = retry.attempts[n]
                  /\ retry.pc = IF retry.attempts[n].kind = "exception" THEN "thrown" ELSE "returned"
            /\ retry.pc \in {"returned", "thrown"} => retry.calls = n)
    /\ (retry.pc # "idle") ~> (retry.pc \in {"returned", "thrown"})

\* Two retries allowed: three attempts with different errors, the third
\* one's result is returned.
C30_Witness ==
    /\ retry.maxRetries = 2
    /\ retry.calls = 3
    /\ retry.attempts = <<Response(Undefined, "e1", 500), Exception(TRUE, "x1"),
                          Response(Undefined, "e2", 503)>>
    /\ retry.pc = "returned"
    /\ retry.settled = Response(Undefined, "e2", 503)

====
